---- MODULE Spec2Model ----
(***************************************************************************)
(* Packet routing simulator (client/src/pages/simulator.tsx):              *)
(*   - dijkstra              the shortest-path solver                      *)
(*   - generateRandomNetwork the random topology generator                 *)
(*   - PacketRoutingSimulator the component: send, regenerate, selection,  *)
(*                           hover, the start timer and animation frames   *)
(* Three specifications share the module: SpecDijkstra runs the solver on  *)
(* bounded inputs, SpecGenerate runs the generator on bounded inputs, and  *)
(* Spec is the component.                                                  *)
(***************************************************************************)
EXTENDS Integers, Sequences, FiniteSets, TLC

(***************************************************************************)
(* Bounds of the model.                                                    *)
(***************************************************************************)
\* longest edge list of an enumerated solver input
MaxEdges == 3
\* largest edge cost of an enumerated solver input (costs are 0..MaxCost)
MaxCost == 1
\* the values of the generator's nodeCount argument are 0..MaxNodeCount
MaxNodeCount == 11
\* the period of the modelled Math.random() stream
TapeLen == 5
\* the values of the modelled Math.random() stream are k / RandDen, 0 <= k < RandDen
RandDen == 20
\* the two amounts (ms) by which the component's clock advances in one step
ShortStep == 500
LongStep == 1250

(***************************************************************************)
(* JavaScript values.                                                      *)
(***************************************************************************)
\* null (previous.set(node.id, null), currentNode = null)
Null == "null"
\* null where an id of a timer or of a frame request is expected (such ids are positive)
NoId == 0
\* undefined (Map.get of an absent key, Array.find without a match, labels[i] past the end)
Undefined == "undefined"
\* Infinity, as a number above every sum of costs the model can form
Infinity == 1000000

\* what network.nodes.find gives when no node matches, as a record so that it can sit in a segment
UndefinedNode == [id |-> Undefined, x |-> 0, y |-> 0]

(***************************************************************************)
(* getDefaultNetwork                                                       *)
(***************************************************************************)
DefaultNetwork ==
    [nodes |-> << [id |-> "A", x |-> 150, y |-> 250],
                  [id |-> "B", x |-> 300, y |-> 150],
                  [id |-> "C", x |-> 300, y |-> 350],
                  [id |-> "D", x |-> 500, y |-> 100],
                  [id |-> "E", x |-> 500, y |-> 300],
                  [id |-> "F", x |-> 700, y |-> 200] >>,
     edges |-> << [from |-> "A", to |-> "B", cost |-> 7],
                  [from |-> "A", to |-> "C", cost |-> 9],
                  [from |-> "B", to |-> "D", cost |-> 10],
                  [from |-> "B", to |-> "C", cost |-> 10],
                  [from |-> "C", to |-> "E", cost |-> 2],
                  [from |-> "D", to |-> "F", cost |-> 15],
                  [from |-> "D", to |-> "E", cost |-> 6],
                  [from |-> "E", to |-> "F", cost |-> 7] >>]

\* the least element of a set of numbers
Min(S) == CHOOSE m \in S : \A n \in S : m <= n

\* the ids of a node list
NodeIds(nodes) == {nodes[i].id : i \in 1..Len(nodes)}

(***************************************************************************)
(* dijkstra, lines 14-95.  The solver's locals are the record              *)
(*   [distances, previous, unvisited]                                      *)
(* where unvisited is the Set in insertion order (forEach visits a Set in  *)
(* insertion order, and delete keeps the order of the rest).               *)
(***************************************************************************)
\* DijkstraInitialize with the two branches of line 25 swapped
DijkstraInitialize_Swapped(net, src) ==
    [distances |-> [id \in NodeIds(net.nodes) |-> IF id = src THEN Infinity ELSE 0],
     previous  |-> [id \in NodeIds(net.nodes) |-> Null],
     unvisited |-> [i \in 1..Len(net.nodes) |-> net.nodes[i].id]]

\* lines 24-28: network.nodes.forEach: distance 0 for the source, Infinity for the others
DijkstraInitialize(net, src) ==
    [distances |-> [id \in NodeIds(net.nodes) |-> IF id = src THEN 0 ELSE Infinity],
     previous  |-> [id \in NodeIds(net.nodes) |-> Null],
     unvisited |-> [i \in 1..Len(net.nodes) |-> net.nodes[i].id]]

\* lines 33-42: the scan for the unvisited node of minimum distance; a later
\* node replaces the current one only when strictly closer
RECURSIVE MinScan(_, _, _, _)
MinScan(unv, dist, i, acc) ==
    IF i > Len(unv) THEN acc
    ELSE MinScan(unv, dist, i + 1,
                 IF dist[unv[i]] < acc.minDistance
                 THEN [currentNode |-> unv[i], minDistance |-> dist[unv[i]]]
                 ELSE acc)

FindMin(s) == MinScan(s.unvisited, s.distances, 1, [currentNode |-> Null, minDistance |-> Infinity])

\* unvisited.delete(currentNode)
SeqDelete(seq, v) == SelectSeq(seq, LAMBDA e : e # v)

\* unvisited.has(id)
SeqHas(seq, v) == \E i \in 1..Len(seq) : seq[i] = v

\* RelaxNeighbor without the newDist < distances.get(neighbor) test
RelaxNeighbor_AlwaysUpdates(s, cur, neighbor, cost) ==
    IF SeqHas(s.unvisited, neighbor)
    THEN [s EXCEPT !.distances[neighbor] = s.distances[cur] + cost,
                   !.previous[neighbor] = cur]
    ELSE s

\* lines 52-59 and 62-69: relax one neighbour of cur over an edge of the given cost
RelaxNeighbor(s, cur, neighbor, cost) ==
    IF SeqHas(s.unvisited, neighbor) /\ s.distances[cur] + cost < s.distances[neighbor]
    THEN [s EXCEPT !.distances[neighbor] = s.distances[cur] + cost,
                   !.previous[neighbor] = cur]
    ELSE s

\* lines 50-71, one edge: first the from-side test, then the to-side test
RelaxEdge(s, cur, edge) ==
    LET s1 == IF edge.from = cur THEN RelaxNeighbor(s, cur, edge.to, edge.cost) ELSE s
    IN  IF edge.to = cur THEN RelaxNeighbor(s1, cur, edge.from, edge.cost) ELSE s1

\* lines 50-71: network.edges.forEach, in list order
RECURSIVE RelaxAll(_, _, _, _)
RelaxAll(s, cur, edges, i) ==
    IF i > Len(edges) THEN s
    ELSE RelaxAll(RelaxEdge(s, cur, edges[i]), cur, edges, i + 1)

\* lines 31, 44, 45: does the main loop stop before this iteration's body
SearchStops(s, dst) ==
    \/ Len(s.unvisited) = 0
    \/ FindMin(s).currentNode = Null
    \/ FindMin(s).minDistance = Infinity
    \/ FindMin(s).currentNode = dst

\* lines 47-71: one iteration that does not stop
SearchBody(s, net) ==
    LET cur == FindMin(s).currentNode
    IN  RelaxAll([s EXCEPT !.unvisited = SeqDelete(s.unvisited, cur)], cur, net.edges, 1)

\* previous.get(current): undefined for a key the map does not hold
PreviousGet(prev, cur) == IF cur \in DOMAIN prev THEN prev[cur] ELSE Undefined

\* lines 80-84: index of the first edge joining prev and current in either direction, 0 when none
RECURSIVE FindEdge(_, _, _, _)
FindEdge(edges, prev, cur, i) ==
    IF i > Len(edges) THEN 0
    ELSE IF \/ (edges[i].from = prev /\ edges[i].to = cur)
            \/ (edges[i].to = prev /\ edges[i].from = cur)
         THEN i
         ELSE FindEdge(edges, prev, cur, i + 1)

\* lines 87-88: network.nodes.find((n) => n.id === id)
RECURSIVE FindNode(_, _, _)
FindNode(nodes, id, i) ==
    IF i > Len(nodes) THEN UndefinedNode
    ELSE IF nodes[i].id = id THEN nodes[i] ELSE FindNode(nodes, id, i + 1)

\* line 78: the reconstruction loop goes on while previous.get(current) !== null
ReconstructContinues(prev, cur) == PreviousGet(prev, cur) # Null

\* ReconstructBody with path.push in place of path.unshift
ReconstructBody_Push(r, prev, net) ==
    LET p == PreviousGet(prev, r.current)
        e == FindEdge(net.edges, p, r.current, 1)
    IN  [path |-> IF e # 0
                  THEN r.path \o << [from |-> FindNode(net.nodes, p, 1),
                                     to   |-> FindNode(net.nodes, r.current, 1),
                                     edge |-> net.edges[e]] >>
                  ELSE r.path,
         current |-> p]

\* lines 79-91: one iteration of the reconstruction loop on [path, current]
ReconstructBody(r, prev, net) ==
    LET p == PreviousGet(prev, r.current)
        e == FindEdge(net.edges, p, r.current, 1)
    IN  [path |-> IF e # 0
                  THEN << [from |-> FindNode(net.nodes, p, 1),
                           to   |-> FindNode(net.nodes, r.current, 1),
                           edge |-> net.edges[e]] >> \o r.path
                  ELSE r.path,
         current |-> p]

\* lines 31-72: the main loop, run to its exit
RECURSIVE Search(_, _, _)
Search(s, net, dst) ==
    IF SearchStops(s, dst) THEN s ELSE Search(SearchBody(s, net), net, dst)

\* lines 75-92: the reconstruction loop, run to its exit (it has one only when
\* the chain from current ends in a null entry)
RECURSIVE Reconstruct(_, _, _)
Reconstruct(r, prev, net) ==
    IF ReconstructContinues(prev, r.current)
    THEN Reconstruct(ReconstructBody(r, prev, net), prev, net)
    ELSE r.path

\* lines 14-95: the value dijkstra returns, for a call that returns
dijkstra(net, src, dst) ==
    Reconstruct([path |-> << >>, current |-> dst],
                Search(DijkstraInitialize(net, src), net, dst).previous, net)

(***************************************************************************)
(* generateRandomNetwork, lines 102-172.                                   *)
(* Math.random() is modelled as a pseudo-random stream: a tape of TapeLen  *)
(* values k / RandDen read cyclically; t counts the draws made so far      *)
(* (modulo TapeLen).  Each draw is used only inside a Math.floor or as a   *)
(* coordinate, and a coordinate is kept to the integer below it.           *)
(***************************************************************************)
\* the numerators a tape may hold: the least value, a middle one and the greatest
RandNumerators == {0, RandDen \div 2, RandDen - 1}

Tapes == [1..TapeLen -> RandNumerators]

\* Math.floor(Math.random() * n) for the draw number t
RandomFloor(tp, t, n) == (tp[(t % TapeLen) + 1] * n) \div RandDen

\* line 105
labels == <<"A", "B", "C", "D", "E", "F", "G", "H", "I", "J">>

\* line 106
minDistance == 100

\* line 115: the bound on the attempts of one node
MaxAttempts == 100

\* lines 130-131: labels[i], i counted from 0; undefined past the end of the array
LabelAt(i) == IF i + 1 <= Len(labels) THEN labels[i + 1] ELSE Undefined

\* lines 120-124: the drawn position is at least minDistance from every placed node
\* (Math.sqrt(d) >= 100 exactly when d >= 100 * 100)
PositionValid(nodes, x, y) ==
    \A n \in 1..Len(nodes) :
        (nodes[n].x - x) * (nodes[n].x - x) + (nodes[n].y - y) * (nodes[n].y - y)
            >= minDistance * minDistance

\* lines 116-117: the position attempt number a (counted from 1) draws, when
\* the first attempt's draws are number t and t + 1
AttemptPosition(tp, t, a) ==
    [x |-> 100 + RandomFloor(tp, t + 2 * (a - 1), 700),
     y |-> 80 + RandomFloor(tp, t + 2 * (a - 1) + 1, 400)]

\* lines 115-127: the rejection sampling of one node.  The loop draws, tests
\* and counts while the test fails and attempts < MaxAttempts: it ends with
\* the first attempt whose position is valid, or with attempt MaxAttempts
SamplePosition(tp, t, placed) ==
    LET ValidAt(a) == PositionValid(placed, AttemptPosition(tp, t, a).x,
                                    AttemptPosition(tp, t, a).y)
        last == IF \E a \in 1..MaxAttempts : ValidAt(a)
                THEN CHOOSE a \in 1..MaxAttempts :
                         ValidAt(a) /\ \A b \in 1..(a - 1) : ~ValidAt(b)
                ELSE MaxAttempts
    IN  [x |-> AttemptPosition(tp, t, last).x,
         y |-> AttemptPosition(tp, t, last).y,
         validPosition |-> ValidAt(last),
         attempts |-> last,
         drawn |-> (t + 2 * last) % TapeLen]

\* lines 109-136: one iteration of the placement loop on g = [nodes, edges, drawn];
\* attempts and validPosition are those the iteration ends with
PlaceNodeStep(g, tp, i) ==
    LET Placed(p) == [nodes |-> Append(g.nodes, [id |-> LabelAt(i), x |-> p.x, y |-> p.y]),
                      edges |-> g.edges,
                      drawn |-> p.drawn,
                      attempts |-> p.attempts,
                      validPosition |-> p.validPosition]
    IN  Placed(SamplePosition(tp, g.drawn, g.nodes))

\* TreeEdgeStep drawing j from [0, i] instead of [0, i)
TreeEdgeStep_OffByOne(g, tp, i) ==
    LET j == RandomFloor(tp, g.drawn, i + 1)
        cost == RandomFloor(tp, g.drawn + 1, 15) + 5
    IN  [nodes |-> g.nodes,
         edges |-> Append(g.edges, [from |-> g.nodes[i + 1].id, to |-> g.nodes[j + 1].id,
                                    cost |-> cost]),
         drawn |-> (g.drawn + 2) % TapeLen]

\* lines 139-146: one iteration of the spanning-tree loop (i counted from 0, i >= 1)
TreeEdgeStep(g, tp, i) ==
    LET j == RandomFloor(tp, g.drawn, i)
        cost == RandomFloor(tp, g.drawn + 1, 15) + 5
    IN  [nodes |-> g.nodes,
         edges |-> Append(g.edges, [from |-> g.nodes[i + 1].id, to |-> g.nodes[j + 1].id,
                                    cost |-> cost]),
         drawn |-> (g.drawn + 2) % TapeLen]

\* line 149
AdditionalEdges(tp, t) == RandomFloor(tp, t, 3) + 2

\* lines 155-159: edges.some, an edge joins the two ids in either direction
EdgeExists(edges, a, b) ==
    \E e \in 1..Len(edges) :
        \/ (edges[e].from = a /\ edges[e].to = b)
        \/ (edges[e].to = a /\ edges[e].from = b)

\* lines 151-154: with no nodes, nodes[0] is undefined and from.id raises a TypeError
ExtraEdgeThrows(g) == Len(g.nodes) = 0

\* EdgeExists is not consulted
ExtraEdgeStep_NoExistsTest(g, tp) ==
    LET from == g.nodes[RandomFloor(tp, g.drawn, Len(g.nodes)) + 1]
        to == g.nodes[RandomFloor(tp, g.drawn + 1, Len(g.nodes)) + 1]
        cost == RandomFloor(tp, g.drawn + 2, 15) + 5
    IN  IF from.id # to.id
        THEN [nodes |-> g.nodes,
              edges |-> Append(g.edges, [from |-> from.id, to |-> to.id, cost |-> cost]),
              drawn |-> (g.drawn + 3) % TapeLen]
        ELSE [g EXCEPT !.drawn = (g.drawn + 2) % TapeLen]

\* lines 150-169: one iteration of the extra-edge loop that does not throw
ExtraEdgeStep(g, tp) ==
    LET from == g.nodes[RandomFloor(tp, g.drawn, Len(g.nodes)) + 1]
        to == g.nodes[RandomFloor(tp, g.drawn + 1, Len(g.nodes)) + 1]
        cost == RandomFloor(tp, g.drawn + 2, 15) + 5
    IN  IF from.id # to.id /\ ~EdgeExists(g.edges, from.id, to.id)
        THEN [nodes |-> g.nodes,
              edges |-> Append(g.edges, [from |-> from.id, to |-> to.id, cost |-> cost]),
              drawn |-> (g.drawn + 3) % TapeLen]
        ELSE [g EXCEPT !.drawn = (g.drawn + 2) % TapeLen]

\* lines 109-136: the placement loop from index i on
RECURSIVE PlaceNodes(_, _, _, _)
PlaceNodes(g, tp, i, n) ==
    IF i < n
    THEN LET Rest(h) == PlaceNodes([nodes |-> h.nodes, edges |-> h.edges, drawn |-> h.drawn],
                                   tp, i + 1, n)
         IN  Rest(PlaceNodeStep(g, tp, i))
    ELSE g

\* lines 139-146: the spanning-tree loop from index i on
RECURSIVE TreeEdges(_, _, _)
TreeEdges(g, tp, i) ==
    IF i < Len(g.nodes) THEN TreeEdges(TreeEdgeStep(g, tp, i), tp, i + 1) ELSE g

\* lines 150-169: the extra-edge loop with k iterations left
RECURSIVE ExtraEdges(_, _, _)
ExtraEdges(g, tp, k) ==
    IF k > 0 THEN ExtraEdges(ExtraEdgeStep(g, tp), tp, k - 1) ELSE g

\* lines 102-172: the network a call returns, for a call with nodeCount >= 1
generateRandomNetwork(n, tp) ==
    LET g1 == TreeEdges(PlaceNodes([nodes |-> << >>, edges |-> << >>, drawn |-> 0], tp, 0, n),
                        tp, 1)
        g2 == ExtraEdges([g1 EXCEPT !.drawn = (g1.drawn + 1) % TapeLen], tp,
                         AdditionalEdges(tp, g1.drawn))
    IN  [nodes |-> g2.nodes, edges |-> g2.edges]

(***************************************************************************)
(* State.                                                                  *)
(***************************************************************************)
VARIABLES
    \* the solver run: its arguments, its locals and its position
    network,      \* the graph: dijkstra's argument; in Spec the component's network state
    sourceId,     \* dijkstra's argument
    destId,       \* dijkstra's argument
    distances,    \* Map id -> tentative distance
    previous,     \* Map id -> id or null
    unvisited,    \* Set of ids, in insertion order
    path,         \* the segments built so far by the reconstruction
    current,      \* the reconstruction's cursor
    dpc,          \* "call", "search", "reconstruct", "returned"; "off" while the solver is not called
    \* the generator run: its argument, the random stream, its locals and its position
    nodeCount,    \* generateRandomNetwork's argument
    tape,         \* the Math.random() stream
    drawn,        \* the number of draws made, modulo TapeLen
    nodes,        \* const nodes
    edges,        \* const edges
    gi,           \* the index i of the loop the run is in
    attempts,     \* attempts of the node placed last
    validPosition,\* validPosition of the node placed last
    additionalEdges,
    gpc,          \* "nodes", "tree", "extra", "returned", "threw"; "off" outside SpecGenerate
    \* the component PacketRoutingSimulator
    state,        \* useState<SimulationState>
    hoveredNode,  \* useState: the id of the hovered node, or null
    animationRef, \* useRef: animationRef.current, a frame request id or null
    timers,       \* pending setTimeout callbacks: [id, remaining (ms until due)]
    frames,       \* pending requestAnimationFrame callbacks of animate:
                  \*   [id, elapsed (Date.now() - startTime of the closure),
                  \*    progress (the progress its run computed last, 0 before its first tick)]
    effectTimeoutId, \* the timeoutId the cleanup of the last start-animation effect clears, or null
    packetProgress,  \* the progress animate computed and rendered last (times duration)
    mounted       \* the component is mounted

dvars == <<sourceId, destId, distances, previous, unvisited, path, current, dpc>>

gvars == <<nodeCount, tape, drawn, nodes, edges, gi, attempts, validPosition,
           additionalEdges, gpc>>

cvars == <<state, hoveredNode, animationRef, timers, frames, effectTimeoutId,
           packetProgress, mounted>>

vars == <<network, dvars, gvars, cvars>>

(***************************************************************************)
(* PacketRoutingSimulator, lines 204-500: the handlers and callbacks.      *)
(* A progress value is kept multiplied by duration, so that it is an       *)
(* integer: progress 1 is duration.                                        *)
(***************************************************************************)
\* line 358
duration == 2500

\* line 487: the delay of the start timer
startDelay == 500

\* line 102: the default of nodeCount, which handleGenerateRandom's call takes
defaultNodeCount == 7

\* line 460: the hover radius
hoverRadius == 24

\* a status message: its text and, for the route message, the cost it embeds
Message(text, cost) == [text |-> text, totalCost |-> cost]

\* lines 207-214
InitialState ==
    [sourceNodeId |-> Null, destinationNodeId |-> Null, path |-> << >>,
     isAnimating |-> FALSE, isComplete |-> FALSE, message |-> Message("", 0)]

\* line 363 without the Math.min
ScaledProgress_NoMin(elapsed) == elapsed

\* line 363: Math.min(elapsed / duration, 1), times duration
ScaledProgress(elapsed) == IF elapsed < duration THEN elapsed ELSE duration

\* what renderNetwork draws when it draws no packet
NoPacket == [drawn |-> FALSE]

\* lines 316-348: the packet renderNetwork(packetProgress) draws for state st:
\* the segment it is on and how far along it (times duration), or no packet
PacketDrawn(st, progress) ==
    IF st.isAnimating /\ Len(st.path) > 0 /\ progress > 0
    THEN LET totalSegments == Len(st.path)
             segmentProgress == progress * totalSegments
             currentSegmentIndex == segmentProgress \div duration
             segmentFraction == segmentProgress - currentSegmentIndex * duration
         IN  IF currentSegmentIndex < Len(st.path)
             THEN [drawn |-> TRUE, segmentIndex |-> currentSegmentIndex,
                   segmentFraction |-> segmentFraction]
             ELSE NoPacket
    ELSE NoPacket

\* line 411: path.reduce((sum, seg) => sum + seg.edge.cost, 0)
RECURSIVE TotalCost(_)
TotalCost(p) == IF p = << >> THEN 0 ELSE TotalCost(SubSeq(p, 1, Len(p) - 1)) + p[Len(p)].edge.cost

\* lines 388-421 with failure branches that also reset the run (path and isAnimating)
handleSendPacket_FailureResets(st, net) ==
    IF st.sourceNodeId = Null \/ st.destinationNodeId = Null
    THEN st
    ELSE IF st.sourceNodeId = st.destinationNodeId
    THEN [st EXCEPT !.message = Message("Source and destination must be different nodes", 0),
                    !.path = << >>, !.isAnimating = FALSE,
                    !.isComplete = FALSE]
    ELSE LET found == dijkstra(net, st.sourceNodeId, st.destinationNodeId)
         IN  IF Len(found) = 0
             THEN [st EXCEPT !.message = Message("No path found between selected nodes", 0),
                             !.path = << >>, !.isAnimating = FALSE,
                             !.isComplete = FALSE]
             ELSE [st EXCEPT !.path = found,
                             !.isAnimating = TRUE,
                             !.isComplete = FALSE,
                             !.message = Message("Calculating route using Dijkstra's Algorithm... Total cost: ",
                                                 TotalCost(found))]

\* lines 388-421: the state handleSendPacket leaves (st itself when it returns at line 389)
handleSendPacket(st, net) ==
    IF st.sourceNodeId = Null \/ st.destinationNodeId = Null
    THEN st
    ELSE IF st.sourceNodeId = st.destinationNodeId
    THEN [st EXCEPT !.message = Message("Source and destination must be different nodes", 0),
                    !.isComplete = FALSE]
    ELSE LET found == dijkstra(net, st.sourceNodeId, st.destinationNodeId)
         IN  IF Len(found) = 0
             THEN [st EXCEPT !.message = Message("No path found between selected nodes", 0),
                             !.isComplete = FALSE]
             ELSE [st EXCEPT !.path = found,
                             !.isAnimating = TRUE,
                             !.isComplete = FALSE,
                             !.message = Message("Calculating route using Dijkstra's Algorithm... Total cost: ",
                                                 TotalCost(found))]

\* lines 433-440
RegeneratedState ==
    [sourceNodeId |-> Null, destinationNodeId |-> Null, path |-> << >>,
     isAnimating |-> FALSE, isComplete |-> FALSE,
     message |-> Message("New network generated. Select source and destination nodes.", 0)]

\* lines 372-377
CompletedState(st) ==
    [st EXCEPT !.isAnimating = FALSE, !.isComplete = TRUE,
               !.message = Message("Packet Delivered Successfully!", 0)]

\* the streams handleGenerateRandom's call of the generator is run on: the constant ones
SimulatorTapes == {tp \in Tapes : \A k \in 1..TapeLen : tp[k] = tp[1]}

\* line 431: the networks generateRandomNetwork() can return
GeneratedNetworks == {generateRandomNetwork(defaultNodeCount, tp) : tp \in SimulatorTapes}

\* lines 457-461: network.nodes.find, the id of the first node within the hover radius, or null
RECURSIVE HoveredAt(_, _, _)
HoveredAt(ns, pt, k) ==
    IF k > Len(ns) THEN Null
    ELSE IF (ns[k].x - pt.x) * (ns[k].x - pt.x) + (ns[k].y - pt.y) * (ns[k].y - pt.y)
                <= hoverRadius * hoverRadius
         THEN ns[k].id
         ELSE HoveredAt(ns, pt, k + 1)

\* the nodes the user picks in the dropdowns: the ends of routes of one, two
\* and three segments of the default network
PickedIds == {"A", "C", "F"}

\* the canvas points the mouse is moved to: on node A and on node B of the
\* default network, on the first node of a generated network, on no node
MousePoints == {[x |-> 150, y |-> 250], [x |-> 300, y |-> 150], [x |-> 100, y |-> 80],
                [x |-> 0, y |-> 0]}

\* the id setTimeout / requestAnimationFrame returns: one no pending callback and no live reference holds
FreshId(pending, held) ==
    Min({k \in 1..(Cardinality(pending) + 2) :
            k # held /\ \A c \in pending : c.id # k})

\* clearTimeout(id) / cancelAnimationFrame(id)
Cancel(pending, id) == {c \in pending : c.id # id}

\* lines 476-491 without the cancellation of lines 479-482
StartAnimationEffect_NoCancel(st, c) ==
    LET cleared == IF c.effectTimeoutId # NoId THEN Cancel(c.timers, c.effectTimeoutId)
                   ELSE c.timers
    IN  IF st.isAnimating /\ Len(st.path) > 0
        THEN LET id == FreshId(cleared, NoId)
             IN  [animationRef |-> c.animationRef,
                  frames |-> c.frames,
                  timers |-> cleared \cup {[id |-> id, remaining |-> startDelay]},
                  effectTimeoutId |-> id]
        ELSE [animationRef |-> c.animationRef,
              frames |-> c.frames,
              timers |-> cleared,
              effectTimeoutId |-> NoId]

\* lines 476-491: the start-animation effect after a render that changed its
\* dependencies: the cleanup of the previous run of the effect (line 489), then
\* its body.  c = [animationRef, timers, frames, effectTimeoutId]
StartAnimationEffect(st, c) ==
    LET cleared == IF c.effectTimeoutId # NoId THEN Cancel(c.timers, c.effectTimeoutId)
                   ELSE c.timers
    IN  IF st.isAnimating /\ Len(st.path) > 0
        THEN LET id == FreshId(cleared, NoId)
             IN  [animationRef |-> NoId,
                  frames |-> IF c.animationRef # NoId THEN Cancel(c.frames, c.animationRef)
                             ELSE c.frames,
                  timers |-> cleared \cup {[id |-> id, remaining |-> startDelay]},
                  effectTimeoutId |-> id]
        ELSE [animationRef |-> c.animationRef,
              frames |-> c.frames,
              timers |-> cleared,
              effectTimeoutId |-> NoId]

\* the refs and pending callbacks as the record the effect works on
Callbacks ==
    [animationRef |-> animationRef, timers |-> timers, frames |-> frames,
     effectTimeoutId |-> effectTimeoutId]

(***************************************************************************)
(* SpecDijkstra: one call of dijkstra on an enumerated input, a loop       *)
(* iteration per step.                                                     *)
(***************************************************************************)
\* the nodes of the enumerated inputs
TestNodes == << [id |-> "A", x |-> 150, y |-> 250],
                [id |-> "B", x |-> 300, y |-> 150],
                [id |-> "C", x |-> 300, y |-> 350] >>

\* an id no graph holds
AbsentId == "Z"

\* the edges an enumerated input may hold: no self-loops, costs 0..MaxCost, each
\* pair of nodes in one orientation, chosen so that every node is the from of
\* one pair and the to of another
EdgePool == {[from |-> pr[1], to |-> pr[2], cost |-> c] :
                pr \in {<<"A", "B">>, <<"B", "C">>, <<"C", "A">>}, c \in 0..MaxCost}

\* the enumerated inputs: every edge list of up to MaxEdges edges (parallel
\* edges included) over TestNodes, and the default network
TestNetworks ==
    {[nodes |-> TestNodes, edges |-> es] : es \in UNION {[1..n -> EdgePool] : n \in 0..MaxEdges}}
    \cup {DefaultNetwork}

\* the solver's locals as the record the operators work on
SolverState == [distances |-> distances, previous |-> previous, unvisited |-> unvisited]

DijkstraOff ==
    /\ sourceId = Null /\ destId = Null
    /\ distances = << >> /\ previous = << >> /\ unvisited = << >>
    /\ path = << >> /\ current = Null /\ dpc = "off"

GenerateOff ==
    /\ nodeCount = 0 /\ tape = << >> /\ drawn = 0
    /\ nodes = << >> /\ edges = << >> /\ gi = 0
    /\ attempts = 0 /\ validPosition = FALSE /\ additionalEdges = 0
    /\ gpc = "off"

ComponentOff ==
    /\ state = << >> /\ hoveredNode = Null /\ animationRef = NoId
    /\ timers = {} /\ frames = {} /\ effectTimeoutId = NoId
    /\ packetProgress = 0 /\ mounted = FALSE

InitDijkstra ==
    /\ GenerateOff
    /\ ComponentOff
    /\ network \in TestNetworks
    /\ sourceId \in NodeIds(network.nodes) \cup {AbsentId}
    /\ destId \in NodeIds(network.nodes) \cup {AbsentId}
    /\ distances = << >> /\ previous = << >> /\ unvisited = << >>
    /\ path = << >> /\ current = Null
    /\ dpc = "call"

\* lines 19-28
DijkstraCall ==
    /\ dpc = "call"
    /\ LET s == DijkstraInitialize(network, sourceId)
       IN  /\ distances' = s.distances
           /\ previous' = s.previous
           /\ unvisited' = s.unvisited
    /\ dpc' = "search"
    /\ UNCHANGED <<gvars, cvars, network, sourceId, destId, path, current>>

\* lines 31-72: an iteration of the main loop that runs its body
SearchIterate ==
    /\ dpc = "search"
    /\ ~SearchStops(SolverState, destId)
    /\ LET s == SearchBody(SolverState, network)
       IN  /\ distances' = s.distances
           /\ previous' = s.previous
           /\ unvisited' = s.unvisited
    /\ UNCHANGED <<gvars, cvars, network, sourceId, destId, path, current, dpc>>

\* lines 31, 44, 45 and 75-76: the main loop ends; path = [], current = destId
SearchExit ==
    /\ dpc = "search"
    /\ SearchStops(SolverState, destId)
    /\ path' = << >>
    /\ current' = destId
    /\ dpc' = "reconstruct"
    /\ UNCHANGED <<gvars, cvars, network, sourceId, destId, distances, previous, unvisited>>

\* lines 78-92: an iteration of the reconstruction loop
ReconstructIterate ==
    /\ dpc = "reconstruct"
    /\ ReconstructContinues(previous, current)
    /\ LET r == ReconstructBody([path |-> path, current |-> current], previous, network)
       IN  /\ path' = r.path
           /\ current' = r.current
    /\ UNCHANGED <<gvars, cvars, network, sourceId, destId, distances, previous, unvisited, dpc>>

\* lines 78 and 94: the reconstruction loop ends; return path
DijkstraReturn ==
    /\ dpc = "reconstruct"
    /\ ~ReconstructContinues(previous, current)
    /\ dpc' = "returned"
    /\ UNCHANGED <<gvars, cvars, network, sourceId, destId, distances, previous, unvisited, path, current>>

NextDijkstra ==
    \/ DijkstraCall
    \/ SearchIterate
    \/ SearchExit
    \/ ReconstructIterate
    \/ DijkstraReturn

SpecDijkstra == InitDijkstra /\ [][NextDijkstra]_vars

(***************************************************************************)
(* SpecGenerate: one call of generateRandomNetwork, a loop iteration per   *)
(* step.                                                                   *)
(***************************************************************************)
\* the generator's locals as the record the operators work on
GeneratorState == [nodes |-> nodes, edges |-> edges, drawn |-> drawn]

InitGenerate ==
    /\ DijkstraOff
    /\ ComponentOff
    /\ network = [nodes |-> << >>, edges |-> << >>]
    /\ nodeCount \in 0..MaxNodeCount
    /\ tape \in Tapes
    /\ drawn = 0
    /\ nodes = << >> /\ edges = << >> /\ gi = 0
    /\ attempts = 0 /\ validPosition = FALSE /\ additionalEdges = 0
    /\ gpc = "nodes"

\* lines 109-136: place node number gi
PlaceNode ==
    /\ gpc = "nodes"
    /\ gi < nodeCount
    /\ \E g \in {PlaceNodeStep(GeneratorState, tape, gi)} :
           /\ nodes' = g.nodes
           /\ drawn' = g.drawn
           /\ attempts' = g.attempts
           /\ validPosition' = g.validPosition
    /\ gi' = gi + 1
    /\ UNCHANGED <<dvars, cvars, network, nodeCount, tape, edges, additionalEdges, gpc>>

\* lines 109 and 139: the placement loop ends, the spanning-tree loop starts at i = 1
StartTree ==
    /\ gpc = "nodes"
    /\ gi >= nodeCount
    /\ gi' = 1
    /\ attempts' = 0
    /\ validPosition' = FALSE
    /\ gpc' = "tree"
    /\ UNCHANGED <<dvars, cvars, network, nodeCount, tape, drawn, nodes, edges, additionalEdges>>

\* lines 139-146: join node gi to an earlier node
TreeEdge ==
    /\ gpc = "tree"
    /\ gi < Len(nodes)
    /\ edges' = TreeEdgeStep(GeneratorState, tape, gi).edges
    /\ drawn' = TreeEdgeStep(GeneratorState, tape, gi).drawn
    /\ gi' = gi + 1
    /\ UNCHANGED <<dvars, cvars, network, nodeCount, tape, nodes, attempts, validPosition,
                   additionalEdges, gpc>>

\* lines 139 and 149-150: the spanning-tree loop ends, additionalEdges is drawn
StartExtra ==
    /\ gpc = "tree"
    /\ gi >= Len(nodes)
    /\ additionalEdges' = AdditionalEdges(tape, drawn)
    /\ drawn' = (drawn + 1) % TapeLen
    /\ gi' = 0
    /\ gpc' = "extra"
    /\ UNCHANGED <<dvars, cvars, network, nodeCount, tape, nodes, edges, attempts, validPosition>>

\* lines 150-169: one candidate extra edge
ExtraEdge ==
    /\ gpc = "extra"
    /\ gi < additionalEdges
    /\ ~ExtraEdgeThrows(GeneratorState)
    /\ edges' = ExtraEdgeStep(GeneratorState, tape).edges
    /\ drawn' = ExtraEdgeStep(GeneratorState, tape).drawn
    /\ gi' = gi + 1
    /\ UNCHANGED <<dvars, cvars, network, nodeCount, tape, nodes, attempts, validPosition,
                   additionalEdges, gpc>>

\* lines 151-154: from is undefined and from.id raises a TypeError
ExtraEdgeThrow ==
    /\ gpc = "extra"
    /\ gi < additionalEdges
    /\ ExtraEdgeThrows(GeneratorState)
    /\ drawn' = (drawn + 2) % TapeLen
    /\ gpc' = "threw"
    /\ UNCHANGED <<dvars, cvars, network, nodeCount, tape, nodes, edges, gi, attempts, validPosition,
                   additionalEdges>>

\* lines 150 and 171: the extra-edge loop ends; return { nodes, edges }
GenerateReturn ==
    /\ gpc = "extra"
    /\ gi >= additionalEdges
    /\ network' = [nodes |-> nodes, edges |-> edges]
    /\ gpc' = "returned"
    /\ UNCHANGED <<dvars, cvars, nodeCount, tape, drawn, nodes, edges, gi, attempts, validPosition,
                   additionalEdges>>

NextGenerate ==
    \/ PlaceNode
    \/ StartTree
    \/ TreeEdge
    \/ StartExtra
    \/ ExtraEdge
    \/ ExtraEdgeThrow
    \/ GenerateReturn

SpecGenerate == InitGenerate /\ [][NextGenerate]_vars

(***************************************************************************)
(* Spec: the component.  A step is one event: a handler or callback, the   *)
(* render its state update causes, and the effects of that render.  Every  *)
(* update of state, hoveredNode or network gives renderNetwork and         *)
(* animatePacket a new identity (lines 350 and 382), so it re-runs the     *)
(* start-animation effect.  Time is kept by the pending callbacks: a timer *)
(* holds the time left until it is due, a frame holds Date.now() -         *)
(* startTime of its closure; Date.now() does not run backwards.            *)
(***************************************************************************)
Init ==
    /\ DijkstraOff
    /\ GenerateOff
    /\ network = DefaultNetwork
    /\ state = InitialState
    /\ hoveredNode = Null
    /\ animationRef = NoId
    /\ timers = {} /\ frames = {}
    /\ effectTimeoutId = NoId
    /\ packetProgress = 0
    /\ mounted = TRUE

\* the render after an update and its effects: the start-animation effect on the new state
RenderEffects(st, c) ==
    \E e \in {StartAnimationEffect(st, c)} :
        /\ animationRef' = e.animationRef
        /\ timers' = e.timers
        /\ frames' = e.frames
        /\ effectTimeoutId' = e.effectTimeoutId

\* lines 531-536: the source dropdown, disabled while animating
SelectSource(v) ==
    /\ mounted
    /\ ~state.isAnimating
    /\ v # state.sourceNodeId
    /\ state' = [state EXCEPT !.sourceNodeId = v]
    /\ RenderEffects(state', Callbacks)
    /\ UNCHANGED <<dvars, gvars, network, hoveredNode, packetProgress, mounted>>

\* lines 556-561: the destination dropdown, disabled while animating
SelectDestination(v) ==
    /\ mounted
    /\ ~state.isAnimating
    /\ v # state.destinationNodeId
    /\ state' = [state EXCEPT !.destinationNodeId = v]
    /\ RenderEffects(state', Callbacks)
    /\ UNCHANGED <<dvars, gvars, network, hoveredNode, packetProgress, mounted>>

\* line 580 without the test of state.isAnimating
SendEnabled_WhileAnimating ==
    /\ state.sourceNodeId # Null
    /\ state.destinationNodeId # Null

\* lines 578-580: the Send Packet button is enabled
SendEnabled ==
    /\ state.sourceNodeId # Null
    /\ state.destinationNodeId # Null
    /\ ~state.isAnimating

\* lines 388-421 and 578-586: a click on Send Packet
SendPacket ==
    /\ mounted
    /\ SendEnabled
    /\ state' = handleSendPacket(state, network)
    /\ RenderEffects(state', Callbacks)
    /\ UNCHANGED <<dvars, gvars, network, hoveredNode, packetProgress, mounted>>

\* lines 426-441 with a setState that replaces the message only
GenerateRandom_KeepsSession ==
    /\ mounted
    /\ ~state.isAnimating
    /\ network' \in GeneratedNetworks
    /\ state' = [state EXCEPT !.message =
                     Message("New network generated. Select source and destination nodes.", 0)]
    /\ RenderEffects(state',
                     [Callbacks EXCEPT !.frames = IF animationRef # NoId
                                                  THEN Cancel(frames, animationRef)
                                                  ELSE frames])
    /\ UNCHANGED <<dvars, gvars, hoveredNode, packetProgress, mounted>>

\* lines 426-441 and 587-596: a click on Random Network, disabled while animating
GenerateRandom ==
    /\ mounted
    /\ ~state.isAnimating
    /\ network' \in GeneratedNetworks
    /\ state' = RegeneratedState
    /\ RenderEffects(state',
                     [Callbacks EXCEPT !.frames = IF animationRef # NoId
                                                  THEN Cancel(frames, animationRef)
                                                  ELSE frames])
    /\ UNCHANGED <<dvars, gvars, hoveredNode, packetProgress, mounted>>

\* the hovered node becomes h, with a start-animation effect that the render does not re-run
SetHoveredNode_EffectNotRerun(h) ==
    /\ hoveredNode' = h
    /\ UNCHANGED <<animationRef, timers, frames, effectTimeoutId>>
    /\ UNCHANGED <<dvars, gvars, network, state, packetProgress, mounted>>

\* the hovered node becomes h: a render and its effects when it changes, else
\* (only mousePos is set) nothing the engine sees
SetHoveredNode(h) ==
    /\ hoveredNode' = h
    /\ IF h # hoveredNode
       THEN RenderEffects(state, Callbacks)
       ELSE UNCHANGED <<animationRef, timers, frames, effectTimeoutId>>
    /\ UNCHANGED <<dvars, gvars, network, state, packetProgress, mounted>>

\* lines 447-464
MouseMove(pt) ==
    /\ mounted
    /\ SetHoveredNode(HoveredAt(network.nodes, pt, 1))

\* lines 466-468
MouseLeave ==
    /\ mounted
    /\ SetHoveredNode(Null)

\* lines 485-487 and 357-382: the start timer is due; animatePacket() takes
\* startTime = Date.now() and requests the first frame
TimerFire(t) ==
    /\ t \in timers
    /\ t.remaining = 0
    /\ timers' = timers \ {t}
    /\ \E id \in {FreshId(frames, animationRef)} :
           /\ frames' = frames \cup {[id |-> id, elapsed |-> 0, progress |-> 0]}
           /\ animationRef' = id
    /\ UNCHANGED <<dvars, gvars, network, state, hoveredNode, effectTimeoutId,
                   packetProgress, mounted>>

\* lines 361-379: a frame callback runs animate
AnimationFrame(f) ==
    /\ f \in frames
    /\ packetProgress' = ScaledProgress(f.elapsed)
    /\ IF packetProgress' < duration
       THEN \E id \in {FreshId(frames \ {f}, NoId)} :
                /\ frames' = (frames \ {f}) \cup
                                 {[id |-> id, elapsed |-> f.elapsed, progress |-> packetProgress']}
                /\ animationRef' = id
                /\ UNCHANGED <<state, timers, effectTimeoutId>>
       ELSE IF mounted
            THEN /\ state' = CompletedState(state)
                 /\ RenderEffects(state',
                                  [Callbacks EXCEPT !.animationRef = NoId,
                                                    !.frames = frames \ {f}])
            ELSE /\ animationRef' = NoId
                 /\ frames' = frames \ {f}
                 /\ UNCHANGED <<state, timers, effectTimeoutId>>
    /\ UNCHANGED <<dvars, gvars, network, hoveredNode, mounted>>

\* the clock advances by dt while a callback is pending: timers come closer,
\* the elapsed time of a closure grows (it is not followed past duration,
\* where progress stays 1)
Tick(dt) ==
    /\ timers \cup frames # {}
    /\ timers' = {[id |-> t.id, remaining |-> IF t.remaining > dt THEN t.remaining - dt ELSE 0] :
                     t \in timers}
    /\ frames' = {[id |-> f.id, progress |-> f.progress,
                   elapsed |-> IF f.elapsed >= duration THEN f.elapsed ELSE f.elapsed + dt] :
                     f \in frames}
    /\ UNCHANGED <<dvars, gvars, network, state, hoveredNode, animationRef, effectTimeoutId,
                   packetProgress, mounted>>

\* lines 489 and 494-500: unmount runs the cleanups of the effects
Unmount ==
    /\ mounted
    /\ mounted' = FALSE
    /\ timers' = IF effectTimeoutId # NoId THEN Cancel(timers, effectTimeoutId) ELSE timers
    /\ frames' = IF animationRef # NoId THEN Cancel(frames, animationRef) ELSE frames
    /\ UNCHANGED <<dvars, gvars, network, state, hoveredNode, animationRef, effectTimeoutId,
                   packetProgress>>

Next ==
    \/ \E v \in NodeIds(network.nodes) \cap PickedIds : SelectSource(v)
    \/ \E v \in NodeIds(network.nodes) \cap PickedIds : SelectDestination(v)
    \/ SendPacket
    \/ GenerateRandom
    \/ \E pt \in MousePoints : MouseMove(pt)
    \/ MouseLeave
    \/ \E t \in timers : TimerFire(t)
    \/ \E f \in frames : AnimationFrame(f)
    \/ \E dt \in {ShortStep, LongStep} : Tick(dt)
    \/ Unmount

Spec == Init /\ [][Next]_vars

(***************************************************************************)
(* SpecSend: calls of handleSendPacket on enumerated inputs, the network   *)
(* and the state the handler finds.  The solver's variables show its call: *)
(* dpc is "returned" once the handler has called dijkstra, with the        *)
(* arguments and the result of the call.                                   *)
(***************************************************************************)
\* the networks the handler is called on: the solver's inputs of fewer than
\* MaxEdges edges, unconnected ones among them
SendNetworks == {net \in TestNetworks : Len(net.edges) < MaxEdges}

\* the path an earlier send has left in the state
StalePath == dijkstra(DefaultNetwork, "A", "C")

\* the states the handler is called in: any selection; no run yet, a completed
\* run, or a run under way
SendStates ==
    {[sourceNodeId |-> src, destinationNodeId |-> dst, path |-> r.path,
      isAnimating |-> r.isAnimating, isComplete |-> r.isComplete, message |-> r.message] :
        src \in NodeIds(TestNodes) \cup {Null},
        dst \in NodeIds(TestNodes) \cup {Null},
        r \in {[path |-> << >>, isAnimating |-> FALSE, isComplete |-> FALSE,
                message |-> Message("", 0)],
               [path |-> StalePath, isAnimating |-> FALSE, isComplete |-> FALSE,
                message |-> Message("No path found between selected nodes", 0)],
               [path |-> StalePath, isAnimating |-> FALSE, isComplete |-> TRUE,
                message |-> Message("Packet Delivered Successfully!", 0)],
               [path |-> StalePath, isAnimating |-> TRUE, isComplete |-> FALSE,
                message |-> Message("Calculating route using Dijkstra's Algorithm... Total cost: ",
                                    TotalCost(StalePath))]}}

\* line 389: the handler returns at once
SendReturnsAtOnce(st) == st.sourceNodeId = Null \/ st.destinationNodeId = Null

\* lines 389-401: the handler reaches its call of dijkstra
SolverCalled(st) == ~SendReturnsAtOnce(st) /\ st.sourceNodeId # st.destinationNodeId

InitSend ==
    /\ DijkstraOff
    /\ GenerateOff
    /\ network \in SendNetworks
    /\ state \in SendStates
    /\ hoveredNode = Null
    /\ animationRef = NoId
    /\ frames = {}
    /\ IF state.isAnimating
       THEN \* the run under way waits for its start timer
            /\ timers = {[id |-> 1, remaining |-> startDelay]}
            /\ effectTimeoutId = 1
       ELSE /\ timers = {}
            /\ effectTimeoutId = NoId
    /\ packetProgress = 0
    /\ mounted = TRUE

\* lines 388-421: a call of handleSendPacket, the render its setState causes and that render's effects
SendCall ==
    /\ state' = handleSendPacket(state, network)
    /\ IF SolverCalled(state)
       THEN /\ sourceId' = state.sourceNodeId
            /\ destId' = state.destinationNodeId
            /\ path' = dijkstra(network, state.sourceNodeId, state.destinationNodeId)
            /\ dpc' = "returned"
            /\ UNCHANGED <<distances, previous, unvisited, current>>
       ELSE UNCHANGED dvars
    /\ IF SendReturnsAtOnce(state)
       THEN UNCHANGED <<animationRef, timers, frames, effectTimeoutId>>
       ELSE RenderEffects(state', Callbacks)
    /\ UNCHANGED <<gvars, network, hoveredNode, packetProgress, mounted>>

NextSend == SendCall

SpecSend == InitSend /\ [][NextSend]_vars

\* the engine keeps delivering callbacks and the clock keeps advancing: a start
\* timer that is due again and again fires, a requested frame that is pending
\* again and again runs, and time passes while a callback waits
CallbacksDelivered ==
    /\ SF_vars(\E t \in timers : TimerFire(t))
    /\ SF_vars(\E f \in frames : AnimationFrame(f))
    /\ WF_vars(\E dt \in {ShortStep, LongStep} : Tick(dt))

\* the component under an engine that delivers its callbacks
SpecLive == Spec /\ CallbacksDelivered

(***************************************************************************)
(* Reference notions for the solver's claims, independent of the solver.   *)
(***************************************************************************)
\* one round of relaxation of every edge in both directions
RelaxRound(net, dist) ==
    [v \in DOMAIN dist |->
        Min({dist[v]} \cup
            {dist[net.edges[i].from] + net.edges[i].cost : i \in
                {j \in 1..Len(net.edges) : /\ net.edges[j].to = v
                                           /\ net.edges[j].from \in DOMAIN dist
                                           /\ dist[net.edges[j].from] < Infinity}} \cup
            {dist[net.edges[i].to] + net.edges[i].cost : i \in
                {j \in 1..Len(net.edges) : /\ net.edges[j].from = v
                                           /\ net.edges[j].to \in DOMAIN dist
                                           /\ dist[net.edges[j].to] < Infinity}})]

RECURSIVE RelaxRounds(_, _, _)
RelaxRounds(net, dist, k) ==
    IF k = 0 THEN dist ELSE RelaxRounds(net, RelaxRound(net, dist), k - 1)

\* the minimum total cost over all routes from src to every node (Infinity: no route)
MinRouteCost(net, src) ==
    RelaxRounds(net, [v \in NodeIds(net.nodes) |-> IF v = src THEN 0 ELSE Infinity],
                Len(net.nodes))

\* is there a route from src to dst
Connected(net, src, dst) == MinRouteCost(net, src)[dst] < Infinity

\* the sum of the edge costs of a segment list
RECURSIVE PathCost(_)
PathCost(p) == IF p = << >> THEN 0 ELSE Head(p).edge.cost + PathCost(Tail(p))

\* both arguments of the running call are ids of the graph
IdsExist == sourceId \in NodeIds(network.nodes) /\ destId \in NodeIds(network.nodes)

\* the reconstruction loop is in a state it repeats for ever: its test holds
\* and its body changes neither path nor current
ReconstructDiverges ==
    /\ dpc = "reconstruct"
    /\ ReconstructContinues(previous, current)
    /\ ReconstructBody([path |-> path, current |-> current], previous, network)
           = [path |-> path, current |-> current]

(***************************************************************************)
(* C1 - C5: the solver.                                                    *)
(***************************************************************************)
\* C1: for distinct existing ids with the destination reachable from the
\* source, the costs of the returned segments sum to the minimum total cost
\* over all routes (parallel edges permitted).
C1_ReturnsMinimumCost ==
    (dpc = "returned" /\ IdsExist /\ sourceId # destId /\ Connected(network, sourceId, destId))
        => PathCost(path) = MinRouteCost(network, sourceId)[destId]

\* C2: on the default network dijkstra(A, F) returns exactly the segments
\* A->C, C->E, E->F in that order, of total cost 18.
C2_DefaultNetworkAtoF ==
    (dpc = "returned" /\ network = DefaultNetwork /\ sourceId = "A" /\ destId = "F")
        => /\ path = << [from |-> DefaultNetwork.nodes[1], to |-> DefaultNetwork.nodes[3],
                         edge |-> [from |-> "A", to |-> "C", cost |-> 9]],
                        [from |-> DefaultNetwork.nodes[3], to |-> DefaultNetwork.nodes[5],
                         edge |-> [from |-> "C", to |-> "E", cost |-> 2]],
                        [from |-> DefaultNetwork.nodes[5], to |-> DefaultNetwork.nodes[6],
                         edge |-> [from |-> "E", to |-> "F", cost |-> 7]] >>
           /\ PathCost(path) = 18

C2_Witness ==
    dpc = "returned" /\ network = DefaultNetwork /\ sourceId = "A" /\ destId = "F"

\* C3: when sourceId or destId is the id of no node, the call terminates (its
\* reconstruction loop never reaches a state it repeats for ever) and what
\* it returns is the empty sequence.
C3_AbsentIdReturnsEmpty ==
    ~IdsExist => (~ReconstructDiverges /\ (dpc = "returned" => path = << >>))

\* C4: for existing ids with no route from the source to the destination, the
\* main loop ends with unvisited nodes left and an infinite minimum tentative
\* distance, the reconstruction ends, and the empty sequence is returned.
C4_UnreachableReturnsEmpty ==
    (dpc \in {"reconstruct", "returned"} /\ IdsExist /\ ~Connected(network, sourceId, destId))
        => /\ Len(unvisited) > 0
           /\ FindMin(SolverState).minDistance = Infinity
           /\ ~ReconstructDiverges
           /\ path = << >>

C4_Witness ==
    /\ dpc = "returned" /\ IdsExist /\ ~Connected(network, sourceId, destId)
    /\ Len(network.edges) > 0
    /\ Len(unvisited) < Len(network.nodes) - 1

\* C5: a non-empty returned sequence starts at the source, ends at the
\* destination, chains (each segment's to is the next one's from), and each
\* segment's edge is an edge of the graph joining that segment's from and to
\* nodes in either direction.
C5_PathWellFormed ==
    (dpc = "returned" /\ path # << >>)
        => /\ path[1].from.id = sourceId
           /\ path[Len(path)].to.id = destId
           /\ \A i \in 1..(Len(path) - 1) : path[i].to = path[i + 1].from
           /\ \A i \in 1..Len(path) :
                /\ \E n \in 1..Len(network.nodes) : network.nodes[n] = path[i].from
                /\ \E n \in 1..Len(network.nodes) : network.nodes[n] = path[i].to
                /\ \E e \in 1..Len(network.edges) : network.edges[e] = path[i].edge
                /\ \/ (path[i].edge.from = path[i].from.id /\ path[i].edge.to = path[i].to.id)
                   \/ (path[i].edge.to = path[i].from.id /\ path[i].edge.from = path[i].to.id)

C5_Witness ==
    /\ dpc = "returned" /\ Len(path) >= 2
    /\ network # DefaultNetwork
    /\ path[1].edge.from = path[1].to.id

(***************************************************************************)
(* C6 - C9: the generator.                                                 *)
(***************************************************************************)
\* the ids a search from the ids in seen visits over the undirected edges
RECURSIVE Visited(_, _)
Visited(net, seen) ==
    LET more == seen \cup
                {net.edges[e].to : e \in {k \in 1..Len(net.edges) : net.edges[k].from \in seen}}
                \cup
                {net.edges[e].from : e \in {k \in 1..Len(net.edges) : net.edges[k].to \in seen}}
    IN  IF more = seen THEN seen ELSE Visited(net, more)

\* the position the draws number t and t + 1 give
DrawnPosition(tp, t) ==
    [x |-> 100 + RandomFloor(tp, t, 700), y |-> 80 + RandomFloor(tp, t + 1, 400)]

\* C6: for nodeCount from 1 to the number of labels, the returned graph has
\* exactly nodeCount nodes and a search from any node visits all nodes.
C6_GeneratedConnected ==
    (gpc = "returned" /\ nodeCount \in 1..Len(labels))
        => /\ Len(network.nodes) = nodeCount
           /\ Cardinality(NodeIds(network.nodes)) = nodeCount
           /\ \A start \in NodeIds(network.nodes) :
                  Visited(network, {start}) = NodeIds(network.nodes)

C6_Witness ==
    /\ gpc = "returned" /\ nodeCount = Len(labels)
    /\ Len(network.edges) > nodeCount - 1
    /\ \E e \in 2..Len(network.edges) : network.edges[e].to # "A"

\* C7: for nodeCount from 1 to 10, every edge the generator holds (spanning
\* tree and extra edges alike) has an integer cost in [5,19] and joins two
\* distinct existing nodes, and no two edges join the same unordered pair.
C7_GeneratedEdgesValid ==
    (gpc # "off" /\ nodeCount \in 1..Len(labels))
        => /\ \A e \in 1..Len(edges) :
                /\ edges[e].cost \in 5..19
                /\ edges[e].from # edges[e].to
                /\ edges[e].from \in NodeIds(nodes)
                /\ edges[e].to \in NodeIds(nodes)
           /\ \A e, f \in 1..Len(edges) :
                e # f => {edges[e].from, edges[e].to} # {edges[f].from, edges[f].to}
           /\ gpc = "returned" => network.edges = edges

\* a returned graph with an extra edge added, a candidate skipped, and both ends of the cost range
C7_Witness ==
    /\ gpc = "returned" /\ nodeCount \in 1..Len(labels)
    /\ Len(edges) > nodeCount - 1
    /\ Len(edges) < nodeCount - 1 + additionalEdges
    /\ \E e \in 1..Len(edges) : edges[e].cost = 5
    /\ \E e \in 1..Len(edges) : edges[e].cost = 19

\* C8: the number of placed nodes is capped at the number of labels (a
\* nodeCount above it gives at most that many nodes), and in every returned
\* graph every node has a defined id and the ids are pairwise distinct.
C8_NodeCountCapped ==
    gpc = "returned"
        => /\ Len(network.nodes) <= Len(labels)
           /\ \A n \in 1..Len(network.nodes) : network.nodes[n].id # Undefined
           /\ \A n, m \in 1..Len(network.nodes) :
                  n # m => network.nodes[n].id # network.nodes[m].id

\* no node takes more than MaxAttempts draws, and a node placed without a
\* valid position took MaxAttempts draws and sits at the position drawn last
AttemptsBounded ==
    /\ attempts <= MaxAttempts
    /\ (gpc = "nodes" /\ gi > 0)
           => /\ attempts >= 1
              /\ validPosition \/ attempts = MaxAttempts
              /\ [x |-> nodes[gi].x, y |-> nodes[gi].y]
                     = DrawnPosition(tape, drawn + TapeLen - 2)

\* C9: for every nodeCount (0 and 1 included) and every outcome of the draws
\* the call raises no error, and it makes at most 100 position draws per
\* node, the last drawn position being accepted when none is valid.
C9_AlwaysSucceeds ==
    gpc # "threw" /\ AttemptsBounded

(***************************************************************************)
(* C10: the animation run.                                                 *)
(***************************************************************************)
\* every pending frame belongs to a run whose last tick computed a progress
\* below 1 that the next tick will not fall below, and it is the request
\* animationRef holds, so that a cancellation through animationRef ends the run
C10_PendingFrames ==
    \A f \in frames :
        /\ f.progress \in 0..(duration - 1)
        /\ f.progress <= f.elapsed
        /\ f.id = animationRef

\* a tick of a run: its progress is min(elapsed / duration, 1), in [0,1] and not
\* below the progress of the run's previous tick; below 1 it requests exactly
\* one further frame and leaves the state alone; at 1 it requests none and
\* applies the completion update
C10_Tick ==
    \A f \in frames :
        AnimationFrame(f)
            => /\ packetProgress' \in 0..duration
               /\ f.elapsed <= duration => packetProgress' = f.elapsed
               /\ f.elapsed >= duration => packetProgress' = duration
               /\ packetProgress' >= f.progress
               /\ packetProgress' < duration
                      => /\ frames' = (frames \ {f}) \cup
                                          {[id |-> animationRef', elapsed |-> f.elapsed,
                                            progress |-> packetProgress']}
                         /\ Cardinality(frames') = Cardinality(frames)
                         /\ state' = state
               /\ packetProgress' = duration
                      => /\ frames' \subseteq frames \ {f}
                         /\ mounted => /\ ~state'.isAnimating
                                       /\ state'.isComplete
                                       /\ state'.path = state.path

\* isComplete is set by nothing but the tick of a pending frame whose run has reached elapsed >= duration
C10_CompletionByTickOnly ==
    (state'.isComplete /\ ~state.isComplete)
        => \E f \in frames : AnimationFrame(f) /\ f.elapsed >= duration

\* C10: during one animation run every tick computes progress =
\* min(elapsed/duration, 1), which lies in [0,1] and never decreases from one
\* tick to the next; a further tick is scheduled only while progress < 1; the
\* completion update (isAnimating = false, isComplete = true) is applied
\* exactly once per run that reaches elapsed >= duration (by the tick that
\* ends the run) and never by a run whose pending frame was cancelled.
C10_AnimationRun ==
    /\ []C10_PendingFrames
    /\ [][C10_Tick /\ C10_CompletionByTickOnly]_vars

\* a run has completed: its last tick computed progress 1 and applied the completion update
C10_Witness ==
    /\ mounted
    /\ state.isComplete /\ ~state.isAnimating
    /\ packetProgress = duration
    /\ frames = {} /\ timers = {}
    /\ hoveredNode # Null

(***************************************************************************)
(* C11: the packet position.                                               *)
(***************************************************************************)
\* the packet a tick of the pending frame f draws: renderNetwork(progress) of line 365
TickPacket(f) == PacketDrawn(state, ScaledProgress(f.elapsed))

\* C11: for a path of N segments and progress p the packet position is
\* segmentIndex = floor(p*N) clamped to [0, N-1] and segmentFraction = p*N -
\* segmentIndex; on a 2-segment path a tick at elapsed = 0 gives segment 0 at
\* fraction 0, at elapsed = duration/2 segment 1 at fraction 0, and at
\* elapsed >= duration the last segment (index 1) at fraction 1: the packet is
\* at the destination node.
C11_PacketPosition ==
    \A f \in frames :
        (state.isAnimating /\ Len(state.path) = 2)
            => /\ f.elapsed = 0
                      => TickPacket(f) = [drawn |-> TRUE, segmentIndex |-> 0,
                                          segmentFraction |-> 0]
               /\ 2 * f.elapsed = duration
                      => TickPacket(f) = [drawn |-> TRUE, segmentIndex |-> 1,
                                          segmentFraction |-> 0]
               /\ f.elapsed >= duration
                      => TickPacket(f) = [drawn |-> TRUE, segmentIndex |-> 1,
                                          segmentFraction |-> duration]

\* the part of C11 the code keeps: strictly inside the run the packet is on
\* segment floor(p*N), at fraction p*N - floor(p*N)
C11_InsideRun ==
    \A f \in frames :
        (state.isAnimating /\ f.elapsed > 0 /\ f.elapsed < duration)
            => LET N == Len(state.path)
                   pk == TickPacket(f)
               IN  /\ pk.drawn
                   /\ pk.segmentIndex \in 0..(N - 1)
                   /\ pk.segmentIndex * duration <= f.elapsed * N
                   /\ f.elapsed * N < (pk.segmentIndex + 1) * duration
                   /\ pk.segmentFraction = f.elapsed * N - pk.segmentIndex * duration

\* the tick at the end of a run on a 2-segment path draws no packet
C11_EndOfRunDrawsNothing ==
    \A f \in frames :
        (state.isAnimating /\ Len(state.path) = 2 /\ f.elapsed >= duration)
            => TickPacket(f) = NoPacket

\* a frame of a run on a 2-segment path is pending at the boundary elapsed = duration/2
C11_MidWitness ==
    \E f \in frames :
        /\ state.isAnimating /\ Len(state.path) = 2
        /\ 2 * f.elapsed = duration
        /\ TickPacket(f) = [drawn |-> TRUE, segmentIndex |-> 1, segmentFraction |-> 0]

\* a frame of a run on a 2-segment path is pending with elapsed >= duration
C11_EndWitness ==
    \E f \in frames :
        state.isAnimating /\ Len(state.path) = 2 /\ f.elapsed >= duration

(***************************************************************************)
(* C12: one animation callback at a time.                                  *)
(***************************************************************************)
\* the pending animation callbacks: start timers and animation frames
PendingCallbacks == Cardinality(timers) + Cardinality(frames)

\* at most one animation callback is pending
C12_AtMostOnePending == PendingCallbacks <= 1

\* a step that starts a run (a send that sets isAnimating, or a render caused by
\* a hover change during a run) leaves the new start timer as the only pending
\* callback: the callback of the prior run is gone
C12_StartCancelsPrior ==
    (state'.isAnimating /\ (state' # state \/ hoveredNode' # hoveredNode))
        => /\ frames' = {}
           /\ \E t \in timers' : timers' = {t} /\ t.remaining = startDelay

\* C12: in every reachable state of the component, under any interleaving of
\* send, regenerate, selection, hover, timer and animation-frame events, at most
\* one animation callback is pending (the 500 ms start timer or one
\* requestAnimationFrame tick), so no two runs tick concurrently: whenever a new
\* run is started, the prior run's pending callback has been cancelled first.
C12_SingleCallback ==
    /\ []C12_AtMostOnePending
    /\ [][C12_StartCancelsPrior]_vars

\* a run that had ticked part of its way was cancelled by a restart: the new
\* start timer is the only pending callback
C12_Witness ==
    /\ state.isAnimating
    /\ packetProgress \in 1..(duration - 1)
    /\ frames = {}
    /\ \E t \in timers : timers = {t} /\ t.remaining = startDelay

(***************************************************************************)
(* C13: a run completes.                                                   *)
(***************************************************************************)
\* the Completed state of lines 372-377
Completed ==
    /\ ~state.isAnimating
    /\ state.isComplete
    /\ state.message = Message("Packet Delivered Successfully!", 0)

\* C13: every animation run self-terminates: after a send request that sets
\* isAnimating, provided timer and animation-frame callbacks keep being
\* delivered and the component is not unmounted, the component eventually
\* reaches the Completed state, whatever mouse moves and hover changes occur
\* in the meantime.
C13_RunCompletes == state.isAnimating ~> (Completed \/ ~mounted)

\* what the code does guarantee: a run completes once the hovered node stops changing
C13_CompletesWithoutHover ==
    <>[][hoveredNode' = hoveredNode]_vars => C13_RunCompletes

(***************************************************************************)
(* C14: the controls during a run.                                         *)
(***************************************************************************)
\* while isAnimating holds, the send, regenerate, select-source and
\* select-destination actions are not enabled: no step from such a state is
\* a step of one of them
C14_ControlsDisabled ==
    state.isAnimating
        => /\ ~SendPacket
           /\ ~GenerateRandom
           /\ \A v \in NodeIds(network.nodes) :
                  ~SelectSource(v) /\ ~SelectDestination(v)

\* a step taken while isAnimating holds leaves the network, the selected
\* source and destination and the path alone
C14_RunLeavesSelection ==
    state.isAnimating
        => /\ network' = network
           /\ state'.sourceNodeId = state.sourceNodeId
           /\ state'.destinationNodeId = state.destinationNodeId
           /\ state'.path = state.path

\* C14: all controls are disabled during animation: in every state with
\* isAnimating the send, regenerate, select-source and select-destination
\* actions are not enabled, so from the moment a run starts until it completes
\* the network, the selected source id, the selected destination id and the
\* current path are unchanged.
C14_DisabledWhileAnimating ==
    [][C14_ControlsDisabled /\ C14_RunLeavesSelection]_vars

\* a run on a generated network is under way, its selection made and its frame pending
C14_Witness ==
    /\ mounted
    /\ state.isAnimating
    /\ state.sourceNodeId # Null /\ state.destinationNodeId # Null
    /\ network # DefaultNetwork
    /\ \E f \in frames : f.progress > 0

(***************************************************************************)
(* C15: a send that fails.                                                 *)
(***************************************************************************)
\* the send fails: the selection is one node twice, or the solver returns the empty sequence
SendFails(st, net) ==
    \/ st.sourceNodeId = st.destinationNodeId
    \/ Len(dijkstra(net, st.sourceNodeId, st.destinationNodeId)) = 0

\* a call of the handler: with source or destination unset nothing changes;
\* with source = destination the solver is not called; on a failure path and
\* isAnimating stay, isComplete becomes false and only the message is replaced
C15_SendStep ==
    SendCall
        => /\ SendReturnsAtOnce(state) => UNCHANGED vars
           /\ (~SendReturnsAtOnce(state) /\ state.sourceNodeId = state.destinationNodeId)
                  => /\ dpc' = dpc
                     /\ state'.message.text = "Source and destination must be different nodes"
           /\ (~SendReturnsAtOnce(state) /\ SendFails(state, network))
                  => /\ state'.path = state.path
                     /\ state'.isAnimating = state.isAnimating
                     /\ state'.isComplete = FALSE
                     /\ state'.sourceNodeId = state.sourceNodeId
                     /\ state'.destinationNodeId = state.destinationNodeId
                     /\ state'.message.text \in
                            {"Source and destination must be different nodes",
                             "No path found between selected nodes"}
                     /\ timers' = {} <=> timers = {}

\* isAnimating holds only with a non-empty path
C15_AnimatingHasPath == state.isAnimating => Len(state.path) > 0

\* C15: a send request never starts an animation on a failure: when source or
\* destination is unset the state is entirely unchanged; when source equals
\* destination the solver is not invoked; when source equals destination or
\* the solver returns the empty sequence, path and isAnimating are left
\* unchanged, isComplete is set to false and only the message is replaced.
\* Consequently isAnimating holds only in states whose path is non-empty.
C15_FailedSend ==
    /\ []C15_AnimatingHasPath
    /\ [][C15_SendStep]_vars

\* the solver was called and found no route: the earlier path is still in the
\* state, no run was started
C15_Witness ==
    /\ dpc = "returned" /\ path = << >>
    /\ state.message.text = "No path found between selected nodes"
    /\ state.path = StalePath
    /\ ~state.isAnimating /\ ~state.isComplete
    /\ timers = {}

\* source = destination: the handler refused without calling the solver
C15_SameNodeWitness ==
    /\ dpc = "off"
    /\ state.message.text = "Source and destination must be different nodes"
    /\ state.path = StalePath

(***************************************************************************)
(* C16: regeneration.                                                      *)
(***************************************************************************)
\* the path lies in the graph: its segments join nodes of the graph over edges of the graph
PathInGraph(p, net) ==
    \A k \in 1..Len(p) :
        /\ \E i \in 1..Len(net.nodes) : net.nodes[i] = p[k].from
        /\ \E i \in 1..Len(net.nodes) : net.nodes[i] = p[k].to
        /\ \E i \in 1..Len(net.edges) : net.edges[i] = p[k].edge

\* a whole graph of the generator's default size: defaultNodeCount nodes with
\* the first labels as ids, and edges that join two of these nodes
WholeGraph(net) ==
    /\ Len(net.nodes) = defaultNodeCount
    /\ \A i \in 1..Len(net.nodes) : net.nodes[i].id = LabelAt(i - 1)
    /\ \A k \in 1..Len(net.edges) :
           /\ net.edges[k].from \in NodeIds(net.nodes)
           /\ net.edges[k].to \in NodeIds(net.nodes)

\* a regenerate request acts: the only step that changes the graph or that
\* brings the session into the regenerated state
RegenerateActs == network' # network \/ (state' = RegeneratedState /\ state' # state)

\* a regenerate request leaves a whole new graph and resets the session; no
\* callback of an earlier run is left pending
C16_RegenerateStep ==
    RegenerateActs
        => /\ WholeGraph(network')
           /\ state'.sourceNodeId = Null /\ state'.destinationNodeId = Null
           /\ state'.path = << >>
           /\ ~state'.isAnimating /\ ~state'.isComplete
           /\ frames' = {} /\ timers' = {}

\* a completion is the completion of a run on the current graph: isComplete
\* holds only with a non-empty path that lies in the current graph
C16_CompletionOnCurrentGraph ==
    state.isComplete => Len(state.path) > 0 /\ PathInGraph(state.path, network)

\* C16: after every regenerate request (handleGenerateRandom) the graph is
\* replaced as a whole and the session state is reset: selected source and
\* destination are unset, the path is empty, isAnimating and isComplete are
\* both false, and any pending animation frame has been cancelled, so that no
\* completion of an earlier run can later set isComplete on the new graph.
C16_RegenerateResets ==
    /\ []C16_CompletionOnCurrentGraph
    /\ [][C16_RegenerateStep]_vars

\* the graph was regenerated after a run had completed on the earlier graph
C16_Witness ==
    /\ network # DefaultNetwork /\ WholeGraph(network)
    /\ state = RegeneratedState
    /\ packetProgress = duration
    /\ frames = {} /\ timers = {}

(***************************************************************************)
(* C17: a hover change during a run.                                       *)
(***************************************************************************)
\* a change of the hovered node while isAnimating holds leaves the state alone
\* and restarts the run: the pending start timer or frame is gone, and the one
\* pending callback is a start timer with the full delay
C17_HoverRestarts ==
    (mounted /\ state.isAnimating /\ hoveredNode' # hoveredNode)
        => /\ state' = state /\ network' = network
           /\ frames' = {}
           /\ animationRef' = NoId
           /\ \E t \in timers' : /\ timers' = {t}
                                 /\ t.remaining = startDelay
                                 /\ t.id = effectTimeoutId'

\* the run a start timer starts takes a new start timestamp: its first frame
\* is requested at elapsed 0 with no progress made
C17_RunStartsFromZero ==
    (\E t \in timers : TimerFire(t))
        => \E f \in frames' : /\ frames' = {f}
                              /\ f.elapsed = 0 /\ f.progress = 0
                              /\ f.id = animationRef'

\* C17: a change of the hovered node while isAnimating (the only state change
\* possible during a run) changes the identity of renderNetwork and hence of
\* animatePacket, which re-runs the start-animation effect: the pending start
\* timer is cleared or the pending animation frame is cancelled, and a new run
\* is scheduled after a fresh 500 ms delay with a new start timestamp, so the
\* packet's progress restarts from 0 rather than continuing from its value.
C17_HoverRestartsRun ==
    [][C17_HoverRestarts /\ C17_RunStartsFromZero]_vars

\* after a hover change cancelled a run part of its way, the new run has
\* started: its first frame is pending at elapsed 0
C17_Witness ==
    /\ mounted /\ state.isAnimating
    /\ packetProgress \in 1..(duration - 1)
    /\ timers = {}
    /\ \E f \in frames : f.elapsed = 0 /\ f.progress = 0

====
